---- MODULE Spec2Model ----
(***************************************************************************)
(* Event staffing scheduler (src/app.py): clock arithmetic, staffing       *)
(* rules, event construction and the greedy per-event assignment run.      *)
(* Clock texts are sequences of one-character strings; a Python dict is a  *)
(* function whose DOMAIN is its key set.                                   *)
(***************************************************************************)
EXTENDS Integers, Sequences, FiniteSets, TLC

VARIABLES employees, events, week, assigned, schedule, pc, i, prev, args, result

vars == <<employees, events, week, assigned, schedule, pc, i, prev, args, result>>

(***************************************************************************)
(* Bounds of the model.                                                    *)
(***************************************************************************)
MaxRoster == 2
MaxEvents == 2
MaxGuests == 450

(***************************************************************************)
(* Python helpers: max, math.ceil of a true division, dict get/put.        *)
(***************************************************************************)
Max(a, b) == IF a >= b THEN a ELSE b

\* floor instead of ceiling
CeilDiv_Floor(a, b) == a \div b

CeilDiv(a, b) == IF a % b = 0 THEN a \div b ELSE (a \div b) + 1

EmptyDict == <<>>

DictGet(d, k, default) == IF k \in DOMAIN d THEN d[k] ELSE default

DictPut(d, k, v) == [x \in (DOMAIN d) \cup {k} |-> IF x = k THEN v ELSE d[x]]

(***************************************************************************)
(* Clock texts.                                                            *)
(***************************************************************************)
Digits == <<"0", "1", "2", "3", "4", "5", "6", "7", "8", "9">>

IsDigit(c) == \E d \in 1..10 : Digits[d] = c

DigitVal(c) == (CHOOSE d \in 1..10 : Digits[d] = c) - 1

\* str.isdigit(): non-empty and every character a digit
IsDigitText(s) == Len(s) > 0 /\ \A k \in 1..Len(s) : IsDigit(s[k])

RECURSIVE ParseInt(_)
\* int(s) of a digit text
ParseInt(s) ==
    IF Len(s) = 0 THEN 0
    ELSE 10 * ParseInt(SubSeq(s, 1, Len(s) - 1)) + DigitVal(s[Len(s)])

RECURSIVE Strip(_)
\* str.strip(): drops leading and trailing blanks
Strip(t) ==
    IF Len(t) = 0 THEN t
    ELSE IF t[1] = " " THEN Strip(Tail(t))
    ELSE IF t[Len(t)] = " " THEN Strip(SubSeq(t, 1, Len(t) - 1))
    ELSE t

ColonPos(t) == {k \in 1..Len(t) : t[k] = ":"}

\* time_to_minutes returns instead of raising ValueError: t.split(":") unpacks
\* into exactly two parts and int() accepts both (digits, blanks around them;
\* the texts of the model hold no sign and no underscore)
TimeParses(t) ==
    /\ Cardinality(ColonPos(t)) = 1
    /\ LET k == CHOOSE c \in ColonPos(t) : TRUE
       IN  /\ IsDigitText(Strip(SubSeq(t, 1, k - 1)))
           /\ IsDigitText(Strip(SubSeq(t, k + 1, Len(t))))

\* HH:MM read as the decimal number HHMM
time_to_minutes_Decimal(t) ==
    LET k == CHOOSE c \in ColonPos(t) : TRUE
        h == ParseInt(Strip(SubSeq(t, 1, k - 1)))
        m == ParseInt(Strip(SubSeq(t, k + 1, Len(t))))
    IN  h * 100 + m

time_to_minutes(t) ==
    LET k == CHOOSE c \in ColonPos(t) : TRUE
        h == ParseInt(Strip(SubSeq(t, 1, k - 1)))
        m == ParseInt(Strip(SubSeq(t, k + 1, Len(t))))
    IN  h * 60 + m

\* f"{n:02d}" for 0 <= n <= 99
TwoDigits(n) == <<Digits[(n \div 10) + 1], Digits[(n % 10) + 1]>>

\* minutes_to_time on a 12-hour dial
minutes_to_time_HalfDay(x) ==
    LET y == x % (12 * 60)
        h == y \div 60
        m == y % 60
    IN  TwoDigits(h) \o <<":">> \o TwoDigits(m)

minutes_to_time(x) ==
    LET y == x % (24 * 60)
        h == y \div 60
        m == y % 60
    IN  TwoDigits(h) \o <<":">> \o TwoDigits(m)

\* overlaps on closed intervals
overlaps_Closed(a_start, a_end, b_start, b_end) == a_start <= b_end /\ b_start <= a_end

overlaps(a_start, a_end, b_start, b_end) == a_start < b_end /\ b_start < a_end

\* is_time_ok that looks for the colon anywhere instead of a 5-character text
is_time_ok_NoLength(t0) ==
    LET t == Strip(t0)
    IN  IF Cardinality(ColonPos(t)) # 1 THEN FALSE
        ELSE LET k == CHOOSE c \in ColonPos(t) : TRUE
                 hh == SubSeq(t, 1, k - 1)
                 mm == SubSeq(t, k + 1, Len(t))
             IN  IF ~(IsDigitText(hh) /\ IsDigitText(mm)) THEN FALSE
                 ELSE LET h == ParseInt(hh)
                          m == ParseInt(mm)
                      IN  0 <= h /\ h <= 23 /\ 0 <= m /\ m <= 59

\* is_time_ok without the range test of hour and minute
is_time_ok_NoRange(t0) ==
    LET t == Strip(t0)
    IN  /\ Len(t) = 5
        /\ t[3] = ":"
        /\ Cardinality(ColonPos(t)) = 1
        /\ IsDigitText(SubSeq(t, 1, 2))
        /\ IsDigitText(SubSeq(t, 4, 5))

is_time_ok(t0) ==
    LET t == Strip(t0)
    IN  IF Len(t) # 5 \/ t[3] # ":" THEN FALSE
        \* a second colon makes the unpacking of split(":") raise: no event either
        ELSE IF Cardinality(ColonPos(t)) # 1 THEN FALSE
        ELSE LET hh == SubSeq(t, 1, 2)
                 mm == SubSeq(t, 4, 5)
             IN  IF ~(IsDigitText(hh) /\ IsDigitText(mm)) THEN FALSE
                 ELSE LET h == ParseInt(hh)
                          m == ParseInt(mm)
                      IN  0 <= h /\ h <= 23 /\ 0 <= m /\ m <= 59

(***************************************************************************)
(* Staffing rules.                                                         *)
(***************************************************************************)
calc_staff(guests) ==
    [waiters    |-> Max(3, CeilDiv(guests, 20)),
     bartenders |-> Max(1, CeilDiv(guests, 60))]

\* the tier bounds taken as exclusive
difficulty_from_guests_Exclusive(guests) ==
    IF guests < 120 THEN 2
    ELSE IF guests < 250 THEN 3
    ELSE IF guests < 400 THEN 4
    ELSE 5

difficulty_from_guests(guests) ==
    IF guests <= 120 THEN 2
    ELSE IF guests <= 250 THEN 3
    ELSE IF guests <= 400 THEN 4
    ELSE 5

(***************************************************************************)
(* Event construction.                                                     *)
(***************************************************************************)
\* build_event adding the day only when the end is strictly before the start
build_event_Strict(day, hall, guests, start_time, end_time) ==
    LET staff      == calc_staff(guests)
        start_min  == time_to_minutes(start_time)
        end_parsed == time_to_minutes(end_time)
        end_min    == IF end_parsed < start_min THEN end_parsed + 24 * 60
                      ELSE end_parsed
        arrival_min == start_min - 120
    IN  [day |-> day, hall |-> hall, guests |-> guests,
         difficulty |-> difficulty_from_guests(guests),
         start_time |-> start_time, end_time |-> end_time,
         arrival_time |-> minutes_to_time(arrival_min),
         arrival_min |-> arrival_min, start_min |-> start_min,
         end_min |-> end_min,
         waiters |-> staff.waiters, bartenders |-> staff.bartenders,
         waiter_names |-> <<>>, bartender_names |-> <<>>,
         missing_waiters |-> 0, missing_bartenders |-> 0]

build_event(day, hall, guests, start_time, end_time) ==
    LET staff      == calc_staff(guests)
        start_min  == time_to_minutes(start_time)
        end_parsed == time_to_minutes(end_time)
        end_min    == IF end_parsed <= start_min THEN end_parsed + 24 * 60
                      ELSE end_parsed
        arrival_min == start_min - 120
    IN  [day |-> day, hall |-> hall, guests |-> guests,
         difficulty |-> difficulty_from_guests(guests),
         start_time |-> start_time, end_time |-> end_time,
         arrival_time |-> minutes_to_time(arrival_min),
         arrival_min |-> arrival_min, start_min |-> start_min,
         end_min |-> end_min,
         waiters |-> staff.waiters, bartenders |-> staff.bartenders,
         waiter_names |-> <<>>, bartender_names |-> <<>>,
         missing_waiters |-> 0, missing_bartenders |-> 0]

(***************************************************************************)
(* Assignment.                                                             *)
(***************************************************************************)
InSeq(x, s) == \E k \in 1..Len(s) : s[k] = x

RECURSIVE ScanIntervals(_, _)
\* the loop of can_assign over schedule.get(name, []), front to back:
\* FALSE at the first interval of the event's day that overlaps its window
ScanIntervals(intervals, event) ==
    IF Len(intervals) = 0 THEN TRUE
    ELSE LET iv == Head(intervals)
         IN  IF iv[1] = event.day
                /\ overlaps(iv[2], iv[3], event.arrival_min, event.end_min)
             THEN FALSE
             ELSE ScanIntervals(Tail(intervals), event)

\* can_assign testing the window from start_min instead of arrival_min
can_assign_FromStart(name, event, sched) ==
    ScanIntervals(DictGet(sched, name, <<>>),
                  [event EXCEPT !.arrival_min = event.start_min])

\* can_assign without the test d == event["day"]
can_assign_AnyDay(name, event, sched) ==
    \A k \in 1..Len(DictGet(sched, name, <<>>)) :
        ~overlaps(DictGet(sched, name, <<>>)[k][2], DictGet(sched, name, <<>>)[k][3],
                  event.arrival_min, event.end_min)

can_assign(name, event, sched) == ScanIntervals(DictGet(sched, name, <<>>), event)

\* sort_key with the two rank directions swapped
sort_key_Swapped(e, difficulty, load) ==
    IF difficulty >= 4
    THEN <<DictGet(load, e.name, 0), -e.rank>>
    ELSE <<DictGet(load, e.name, 0), e.rank>>

\* the sort key of a candidate: (load so far, rank or -rank)
sort_key(e, difficulty, load) ==
    IF difficulty >= 4
    THEN <<DictGet(load, e.name, 0), e.rank>>
    ELSE <<DictGet(load, e.name, 0), -e.rank>>

\* tuple comparison of two keys
KeyLess(k1, k2) == k1[1] < k2[1] \/ (k1[1] = k2[1] /\ k1[2] < k2[2])

RECURSIVE InsertByKey(_, _, _, _)
\* x goes before the first element whose key is strictly greater
InsertByKey(sorted, x, difficulty, load) ==
    IF Len(sorted) = 0 THEN <<x>>
    ELSE IF KeyLess(sort_key(x, difficulty, load),
                    sort_key(Head(sorted), difficulty, load))
         THEN <<x>> \o sorted
         ELSE <<Head(sorted)>> \o InsertByKey(Tail(sorted), x, difficulty, load)

RECURSIVE SortCandidates(_, _, _)
\* list.sort(key=key): stable, ascending
SortCandidates(cands, difficulty, load) ==
    IF Len(cands) = 0 THEN <<>>
    ELSE InsertByKey(SortCandidates(SubSeq(cands, 1, Len(cands) - 1), difficulty, load),
                     cands[Len(cands)], difficulty, load)

RECURSIVE Choose_NoCap(_, _, _, _, _)
\* Choose without the break at `required`
Choose_NoCap(cands, chosen, required, event, sched) ==
    IF Len(cands) = 0 THEN chosen
    ELSE LET e == Head(cands)
         IN  IF ScanIntervals(DictGet(sched, e.name, <<>>), event)
             THEN Choose_NoCap(Tail(cands), Append(chosen, e), required, event, sched)
             ELSE Choose_NoCap(Tail(cands), chosen, required, event, sched)

RECURSIVE Choose_OneShort(_, _, _, _, _)
\* Choose that breaks one candidate before `required`
Choose_OneShort(cands, chosen, required, event, sched) ==
    IF Len(cands) = 0 THEN chosen
    ELSE IF Len(chosen) >= required - 1 THEN chosen
    ELSE LET e == Head(cands)
         IN  IF can_assign(e.name, event, sched)
             THEN Choose_OneShort(Tail(cands), Append(chosen, e), required, event, sched)
             ELSE Choose_OneShort(Tail(cands), chosen, required, event, sched)

RECURSIVE Choose_StopAtBusy(_, _, _, _, _)
\* Choose that ends at the first candidate who is not free
Choose_StopAtBusy(cands, chosen, required, event, sched) ==
    IF Len(cands) = 0 THEN chosen
    ELSE IF Len(chosen) = required THEN chosen
    ELSE LET e == Head(cands)
         IN  IF can_assign(e.name, event, sched)
             THEN Choose_StopAtBusy(Tail(cands), Append(chosen, e), required, event, sched)
             ELSE chosen

RECURSIVE Choose(_, _, _, _, _)
\* the selection loop of one role: stop at `required`, take the free ones
Choose(cands, chosen, required, event, sched) ==
    IF Len(cands) = 0 THEN chosen
    ELSE IF Len(chosen) = required THEN chosen
    ELSE LET e == Head(cands)
         IN  IF can_assign(e.name, event, sched)
             THEN Choose(Tail(cands), Append(chosen, e), required, event, sched)
             ELSE Choose(Tail(cands), chosen, required, event, sched)

RECURSIVE CommitLoad_SetOne(_, _)
\* CommitLoad storing 1 instead of the incremented count
CommitLoad_SetOne(chosen, load) ==
    IF Len(chosen) = 0 THEN load
    ELSE CommitLoad_SetOne(Tail(chosen), DictPut(load, Head(chosen).name, 1))

RECURSIVE CommitLoad(_, _)
\* assigned[name] = assigned.get(name, 0) + 1 for every chosen employee
CommitLoad(chosen, load) ==
    IF Len(chosen) = 0 THEN load
    ELSE LET e == Head(chosen)
         IN  CommitLoad(Tail(chosen), DictPut(load, e.name, DictGet(load, e.name, 0) + 1))

RECURSIVE CommitSchedule(_, _, _)
\* schedule.setdefault(name, []).append((day, arrival_min, end_min))
CommitSchedule(chosen, event, sched) ==
    IF Len(chosen) = 0 THEN sched
    ELSE LET e == Head(chosen)
             iv == <<event.day, event.arrival_min, event.end_min>>
         IN  CommitSchedule(Tail(chosen), event,
                 DictPut(sched, e.name, Append(DictGet(sched, e.name, <<>>), iv)))

NamesOf(chosen) == [k \in 1..Len(chosen) |-> chosen[k].name]

\* the waiter pool without the test day in e["days"]
SortedWaiters_AnyDay(event, roster, load) ==
    SortCandidates(SelectSeq(roster, LAMBDA e : e.role = "waiter"),
                   event.difficulty, load)

SortedWaiters(event, roster, load) ==
    LET available == SelectSeq(roster, LAMBDA e : InSeq(event.day, e.days))
    IN  SortCandidates(SelectSeq(available, LAMBDA e : e.role = "waiter"),
                       event.difficulty, load)

\* the bartender pool without the test e["role"] == "bartender"
SortedBartenders_AnyRole(event, roster, load) ==
    SortCandidates(SelectSeq(roster, LAMBDA e : InSeq(event.day, e.days)),
                   event.difficulty, load)

SortedBartenders(event, roster, load) ==
    LET available == SelectSeq(roster, LAMBDA e : InSeq(event.day, e.days))
    IN  SortCandidates(SelectSeq(available, LAMBDA e : e.role = "bartender"),
                       event.difficulty, load)

ChosenWaiters(event, roster, load, sched) ==
    Choose(SortedWaiters(event, roster, load), <<>>, event.waiters, event, sched)

ChosenBartenders(event, roster, load, sched) ==
    Choose(SortedBartenders(event, roster, load), <<>>, event.bartenders, event, sched)

\* assign_event that also overwrites the required counts with what it found
assign_event_OverwritesNeeds(event, roster, load, sched) ==
    LET chosen_w == ChosenWaiters(event, roster, load, sched)
        chosen_b == ChosenBartenders(event, roster, load, sched)
    IN  [event |-> [event EXCEPT
                      !.waiters = Len(chosen_w),
                      !.bartenders = Len(chosen_b),
                      !.waiter_names = NamesOf(chosen_w),
                      !.bartender_names = NamesOf(chosen_b),
                      !.missing_waiters = Max(0, event.waiters - Len(chosen_w)),
                      !.missing_bartenders = Max(0, event.bartenders - Len(chosen_b))],
         assigned |-> CommitLoad(chosen_w \o chosen_b, load),
         schedule |-> CommitSchedule(chosen_w \o chosen_b, event, sched)]

\* the event, the load counter and the schedule after assign_event
assign_event(event, roster, load, sched) ==
    LET chosen_w == ChosenWaiters(event, roster, load, sched)
        chosen_b == ChosenBartenders(event, roster, load, sched)
    IN  [event |-> [event EXCEPT
                      !.waiter_names = NamesOf(chosen_w),
                      !.bartender_names = NamesOf(chosen_b),
                      !.missing_waiters = Max(0, event.waiters - Len(chosen_w)),
                      !.missing_bartenders = Max(0, event.bartenders - Len(chosen_b))],
         assigned |-> CommitLoad(chosen_w \o chosen_b, load),
         schedule |-> CommitSchedule(chosen_w \o chosen_b, event, sched)]

(***************************************************************************)
(* Inputs of the model.                                                    *)
(***************************************************************************)
Names == <<"a", "b">>

Roles == <<"bartender", "waiter">>

Ranks == {1, 5}

DayLists == {<<"sun">>, <<"sun", "mon">>}

EventDays == {"sun", "mon"}

Halls == {"A"}

GuestInputs == {50, 410}

T(h1, h2, m1, m2) == <<h1, h2, ":", m1, m2>>

\* (start text, end text) typed into the form; the last four fail the validation
\* or need stripping
TimeInputs ==
    { <<T("0","8","0","0"), T("1","0","0","0")>>,
      <<T("1","0","0","0"), T("1","2","0","0")>>,
      <<T("1","2","0","0"), T("0","8","0","0")>>,
      <<<<" ">> \o T("0","8","0","0"), T("1","0","0","0") \o <<" ">>>>,
      <<<<"7", ":", "0", "5">>, T("1","0","0","0")>>,
      <<T("0","8","0","0"), T("2","5","0","0")>>,
      <<T("0","8","6","0"), T("1","0","0","0")>> }

EmployeeRecords ==
    [name : {Names[k] : k \in 1..Len(Names)},
     role : {Roles[k] : k \in 1..Len(Roles)},
     days : DayLists,
     rank : Ranks]

IndexOf(x, s) == CHOOSE k \in 1..Len(s) : s[k] = x

\* ORDER BY role, name of load_employees_from_db
RosterOrdered(r) ==
    \A k \in 1..(Len(r) - 1) :
        \/ IndexOf(r[k].role, Roles) < IndexOf(r[k + 1].role, Roles)
        \/ /\ r[k].role = r[k + 1].role
           /\ IndexOf(r[k].name, Names) <= IndexOf(r[k + 1].name, Names)

Rosters ==
    UNION { {r \in [1..n -> EmployeeRecords] : RosterOrdered(r)} : n \in 0..MaxRoster }

(***************************************************************************)
(* The page: the event form and the scheduling run.                        *)
(***************************************************************************)
\* the outcome of the run before this one, kept for comparing two runs
NoRun == [set |-> FALSE, week |-> <<>>, assigned |-> EmptyDict, schedule |-> EmptyDict]

\* arguments and result of a function applied on its own
NoArgs == [fn |-> "none"]

NoResult == [fn |-> "none"]

\* assigned = {} and schedule = {} at the start of a run
NewAssigned(prior) == EmptyDict

\* a schedule that outlives the run
NewSchedule_Kept(prior) == prior

NewSchedule(prior) == EmptyDict

\* a rerun of the script drops the locals of the previous run
DropRun ==
    /\ week' = <<>>
    /\ assigned' = EmptyDict
    /\ schedule' = EmptyDict
    /\ i' = 0
    /\ prev' = NoRun
    /\ pc' = "idle"

Init ==
    /\ employees \in Rosters
    /\ events = <<>>
    /\ week = <<>>
    /\ assigned = EmptyDict
    /\ schedule = EmptyDict
    /\ pc = "idle"
    /\ i = 0
    /\ prev = NoRun
    /\ args = NoArgs
    /\ result = NoResult

AddEvent(day, hall, guests, start_time, end_time) ==
    /\ pc \in {"idle", "done"}
    /\ Len(events) < MaxEvents
    /\ is_time_ok(start_time) /\ is_time_ok(end_time)
    /\ events' = Append(events, [day |-> day, hall |-> hall, guests |-> guests,
                                 start_time |-> Strip(start_time),
                                 end_time |-> Strip(end_time)])
    /\ DropRun
    /\ UNCHANGED <<employees, args, result>>

\* the form's error branch: nothing is appended
RejectEvent(start_time, end_time) ==
    /\ pc \in {"idle", "done"}
    /\ ~(is_time_ok(start_time) /\ is_time_ok(end_time))
    /\ DropRun
    /\ UNCHANGED <<employees, events, args, result>>

ClearEvents ==
    /\ pc \in {"idle", "done"}
    /\ events' = <<>>
    /\ DropRun
    /\ UNCHANGED <<employees, args, result>>

\* the week built back to front
BuildWeek_Reversed(requests) ==
    [k \in 1..Len(requests) |->
        LET r == requests[Len(requests) + 1 - k]
        IN  build_event(r.day, r.hall, r.guests, r.start_time, r.end_time)]

\* week = [build_event(...) for e in st.session_state.events]
BuildWeek(requests) ==
    [k \in 1..Len(requests) |->
        build_event(requests[k].day, requests[k].hall, requests[k].guests,
                    requests[k].start_time, requests[k].end_time)]

\* the button with a non-empty event list: build the week, fresh counters
StartRun ==
    /\ pc \in {"idle", "done"}
    /\ Len(events) > 0
    /\ week' = BuildWeek(events)
    /\ assigned' = NewAssigned(assigned)
    /\ schedule' = NewSchedule(schedule)
    /\ i' = 1
    /\ pc' = "assigning"
    /\ UNCHANGED <<employees, events, args, result>>

CreateSchedule ==
    /\ StartRun
    /\ prev' = NoRun

CreateScheduleEmpty ==
    /\ pc \in {"idle", "done"}
    /\ Len(events) = 0
    /\ DropRun
    /\ UNCHANGED <<employees, events, args, result>>

AssignStep ==
    /\ pc = "assigning"
    /\ i <= Len(week)
    /\ LET r == assign_event(week[i], employees, assigned, schedule)
       IN  /\ week' = [week EXCEPT ![i] = r.event]
           /\ assigned' = r.assigned
           /\ schedule' = r.schedule
    /\ i' = i + 1
    /\ UNCHANGED <<employees, events, pc, prev, args, result>>

FinishRun ==
    /\ pc = "assigning"
    /\ i > Len(week)
    /\ pc' = "done"
    /\ UNCHANGED <<employees, events, week, assigned, schedule, i, prev, args, result>>

Next ==
    \/ \E day \in EventDays, hall \in Halls, guests \in GuestInputs, t \in TimeInputs :
          AddEvent(day, hall, guests, t[1], t[2])
    \/ \E t \in TimeInputs : RejectEvent(t[1], t[2])
    \/ ClearEvents
    \/ CreateSchedule
    \/ CreateScheduleEmpty
    \/ AssignStep
    \/ FinishRun

Spec == Init /\ [][Next]_vars

\* the same page, remembering the outcome of the run before the current one
CreateScheduleAgain ==
    /\ StartRun
    /\ prev' = IF pc = "done"
               THEN [set |-> TRUE, week |-> week, assigned |-> assigned,
                     schedule |-> schedule]
               ELSE NoRun

NextRerun ==
    \/ \E day \in EventDays, hall \in Halls, guests \in GuestInputs, t \in TimeInputs :
          AddEvent(day, hall, guests, t[1], t[2])
    \/ \E t \in TimeInputs : RejectEvent(t[1], t[2])
    \/ ClearEvents
    \/ CreateScheduleAgain
    \/ CreateScheduleEmpty
    \/ AssignStep
    \/ FinishRun

SpecRerun == Init /\ [][NextRerun]_vars

(***************************************************************************)
(* The staffing rules applied on their own to a guest count, and            *)
(* build_event applied on its own to a pair of clock texts.                *)
(***************************************************************************)
TierEdges == {120, 121, 250, 251, 400, 401}

MinuteInputs == {0, 1, 30, 59}

ClockText(h, m) ==
    <<Digits[(h \div 10) + 1], Digits[(h % 10) + 1], ":",
      Digits[(m \div 10) + 1], Digits[(m % 10) + 1]>>

NoPage ==
    /\ employees = <<>>
    /\ events = <<>>
    /\ week = <<>>
    /\ assigned = EmptyDict
    /\ schedule = EmptyDict
    /\ pc = "idle"
    /\ i = 0
    /\ prev = NoRun

InitRules ==
    /\ NoPage
    /\ \E g \in 0..MaxGuests, o \in TierEdges \cup {0, MaxGuests + 1} :
          args = [fn |-> "rules", guests |-> g, other |-> IF o = 0 THEN g + 1 ELSE o]
    /\ result = NoResult

ApplyCalcStaff ==
    /\ args.fn = "rules"
    /\ result.fn = "none"
    /\ result' = [fn |-> "calc_staff", guests |-> args.guests,
                  waiters |-> calc_staff(args.guests).waiters,
                  bartenders |-> calc_staff(args.guests).bartenders]
    /\ UNCHANGED <<employees, events, week, assigned, schedule, pc, i, prev, args>>

ApplyDifficulty ==
    /\ args.fn = "rules"
    /\ result.fn = "none"
    /\ result' = [fn |-> "difficulty_from_guests",
                  guests |-> args.guests, other |-> args.other,
                  tier |-> difficulty_from_guests(args.guests),
                  other_tier |-> difficulty_from_guests(args.other)]
    /\ UNCHANGED <<employees, events, week, assigned, schedule, pc, i, prev, args>>

NextRules == ApplyCalcStaff \/ ApplyDifficulty

SpecRules == InitRules /\ [][NextRules]_vars

InitBuild ==
    /\ NoPage
    /\ \E sh \in 0..23, sm \in MinuteInputs, eh \in 0..23, em \in MinuteInputs :
          args = [fn |-> "build_event", day |-> "sun", hall |-> "A", guests |-> 150,
                  sh |-> sh, sm |-> sm, eh |-> eh, em |-> em,
                  start_time |-> ClockText(sh, sm), end_time |-> ClockText(eh, em)]
    /\ result = NoResult

ApplyBuildEvent ==
    /\ args.fn = "build_event"
    /\ result.fn = "none"
    /\ TimeParses(args.start_time) /\ TimeParses(args.end_time)
    /\ result' = [fn |-> "build_event",
                  event |-> build_event(args.day, args.hall, args.guests,
                                        args.start_time, args.end_time)]
    /\ UNCHANGED <<employees, events, week, assigned, schedule, pc, i, prev, args>>

NextBuild == ApplyBuildEvent

SpecBuild == InitBuild /\ [][NextBuild]_vars

(***************************************************************************)
(* The roster as it comes out of the employees table, one request typed    *)
(* into the add-event form, and the core applied to that request as typed. *)
(***************************************************************************)
MinGuestsInput == 1

MaxGuestsInput == 3000

\* a number input with min_value=0
GuestsInRange_ZeroAllowed(g) == 0 <= g /\ g <= MaxGuestsInput

\* the number input hands over only values between min_value and max_value
GuestsInRange(g) == MinGuestsInput <= g /\ g <= MaxGuestsInput

\* text order of the names and roles a table row can hold
NamesSorted == <<"", "a", "b", "c">>

RolesSorted == <<"bartender", "chef", "waiter">>

RECURSIVE save_employees_to_db_KeepsNameless(_)
\* save_employees_to_db without the test "if not name: continue"
save_employees_to_db_KeepsNameless(emps) ==
    IF Len(emps) = 0 THEN <<>>
    ELSE LET e == Head(emps)
             row == [name |-> e.name, role |-> e.role, days |-> e.days,
                     rank |-> IF e.rank = 0 THEN 1 ELSE e.rank]
         IN  IF e.role \notin {"waiter", "bartender"}
             THEN save_employees_to_db_KeepsNameless(Tail(emps))
             ELSE <<row>> \o save_employees_to_db_KeepsNameless(Tail(emps))

RECURSIVE save_employees_to_db(_)
\* the rows inserted, in input order: nameless rows and rows with a role
\* outside waiter/bartender are skipped, rank 0 or None is stored as 1
save_employees_to_db(emps) ==
    IF Len(emps) = 0 THEN <<>>
    ELSE LET e == Head(emps)
             row == [name |-> e.name, role |-> e.role, days |-> e.days,
                     rank |-> IF e.rank = 0 THEN 1 ELSE e.rank]
         IN  IF e.name = "" THEN save_employees_to_db(Tail(emps))
             ELSE IF e.role \notin {"waiter", "bartender"}
                  THEN save_employees_to_db(Tail(emps))
                  ELSE <<row>> \o save_employees_to_db(Tail(emps))

RowBefore(r1, r2) ==
    \/ IndexOf(r1.role, RolesSorted) < IndexOf(r2.role, RolesSorted)
    \/ /\ r1.role = r2.role
       /\ IndexOf(r1.name, NamesSorted) < IndexOf(r2.name, NamesSorted)

RECURSIVE InsertRow(_, _)
InsertRow(sorted, x) ==
    IF Len(sorted) = 0 THEN <<x>>
    ELSE IF RowBefore(x, Head(sorted)) THEN <<x>> \o sorted
         ELSE <<Head(sorted)>> \o InsertRow(Tail(sorted), x)

RECURSIVE load_employees_from_db(_)
\* SELECT ... ORDER BY role, name over the stored rows (rows that tie keep
\* their insertion order)
load_employees_from_db(rows) ==
    IF Len(rows) = 0 THEN <<>>
    ELSE InsertRow(load_employees_from_db(SubSeq(rows, 1, Len(rows) - 1)),
                   rows[Len(rows)])

Emp(name, role, days, rank) == [name |-> name, role |-> role, days |-> days, rank |-> rank]

\* employee lists handed to save_employees_to_db (defaults, editor, import)
RawRosters ==
    { <<>>,
      <<Emp("a", "waiter", <<"sun">>, 1), Emp("b", "bartender", <<"sun">>, 5)>>,
      <<Emp("", "waiter", <<"sun">>, 5), Emp("a", "waiter", <<"sun">>, 1),
        Emp("c", "chef", <<"sun">>, 1)>>,
      <<Emp("b", "waiter", <<"sun">>, 0), Emp("a", "chef", <<"sun">>, 1),
        Emp("a", "bartender", <<"sun">>, 5)>>,
      <<Emp("c", "chef", <<"sun">>, 1), Emp("", "bartender", <<"sun">>, 1)>>,
      <<Emp("b", "waiter", <<"sun">>, 5), Emp("", "bartender", <<"sun">>, 1),
        Emp("a", "waiter", <<"sun">>, 1)>> }

FormGuests == {0 - 5, 0, 150}

ValidTexts ==
    {T("0","8","0","0"), T("1","0","0","0"), T("2","3","3","0"), T("0","1","0","0")}

OddTexts ==
    { <<" ">> \o T("0","8","0","0"),
      <<"7", ":", "0", "5">>,
      T("2","5","0","0"),
      T("0","8","6","0"),
      <<"a", "b", ":", "c", "d">>,
      <<"0", "8", "-", "0", "0">> }

FormTimePairs ==
    {<<x, T("1","0","0","0")>> : x \in ValidTexts \cup OddTexts}
        \cup {<<T("0","8","0","0"), y>> : y \in ValidTexts \cup OddTexts}
        \cup {<<T("2","3","3","0"), T("0","1","0","0")>>}

\* the event list before the request is typed
PriorLists ==
    { <<>>,
      <<[day |-> "sun", hall |-> "A", guests |-> 50,
         start_time |-> T("0","8","0","0"), end_time |-> T("1","0","0","0")]>> }

FormRequest ==
    [day |-> args.day, hall |-> args.hall, guests |-> args.guests,
     start_time |-> Strip(args.start_time), end_time |-> Strip(args.end_time)]

InitForm ==
    /\ \E raw \in RawRosters, g \in FormGuests, t \in FormTimePairs, prior \in PriorLists :
          /\ args = [fn |-> "form", raw |-> raw, prior |-> prior,
                     day |-> "sun", hall |-> "A", guests |-> g,
                     start_time |-> t[1], end_time |-> t[2]]
          /\ employees = load_employees_from_db(save_employees_to_db(raw))
          /\ events = prior
    /\ week = <<>>
    /\ assigned = EmptyDict
    /\ schedule = EmptyDict
    /\ pc = "idle"
    /\ i = 0
    /\ prev = NoRun
    /\ result = NoResult

\* the number input does not yield the typed guest count
GuestsRefused ==
    /\ pc = "idle" /\ result.fn = "none"
    /\ ~GuestsInRange(args.guests)
    /\ result' = [fn |-> "number_input", ok |-> FALSE]
    /\ UNCHANGED <<employees, events, week, assigned, schedule, pc, i, prev, args>>

\* the add-event button, success branch
SubmitAccepted ==
    /\ pc = "idle" /\ result.fn = "none"
    /\ GuestsInRange(args.guests)
    /\ is_time_ok(args.start_time) /\ is_time_ok(args.end_time)
    /\ events' = Append(events, FormRequest)
    /\ result' = [fn |-> "add_event", ok |-> TRUE]
    /\ UNCHANGED <<employees, week, assigned, schedule, pc, i, prev, args>>

\* the add-event button, error branch
SubmitRejected ==
    /\ pc = "idle" /\ result.fn = "none"
    /\ GuestsInRange(args.guests)
    /\ ~(is_time_ok(args.start_time) /\ is_time_ok(args.end_time))
    /\ result' = [fn |-> "add_event", ok |-> FALSE]
    /\ UNCHANGED <<employees, events, week, assigned, schedule, pc, i, prev, args>>

\* build_event applied to the request as typed, without the form
BuildTypedReturns ==
    /\ pc = "idle" /\ result.fn = "none"
    /\ TimeParses(args.start_time) /\ TimeParses(args.end_time)
    /\ result' = [fn |-> "build_typed", raised |-> FALSE,
                  event |-> build_event(args.day, args.hall, args.guests,
                                        args.start_time, args.end_time)]
    /\ UNCHANGED <<employees, events, week, assigned, schedule, pc, i, prev, args>>

BuildTypedRaises ==
    /\ pc = "idle" /\ result.fn = "none"
    /\ ~(TimeParses(args.start_time) /\ TimeParses(args.end_time))
    /\ result' = [fn |-> "build_typed", raised |-> TRUE]
    /\ UNCHANGED <<employees, events, week, assigned, schedule, pc, i, prev, args>>

TypedRequest ==
    [day |-> args.day, hall |-> args.hall, guests |-> args.guests,
     start_time |-> args.start_time, end_time |-> args.end_time]

\* the run applied to the list with the request as typed in it, without the form
RunTypedStarts ==
    /\ pc = "idle" /\ result.fn = "none"
    /\ TimeParses(args.start_time) /\ TimeParses(args.end_time)
    /\ week' = BuildWeek(Append(events, TypedRequest))
    /\ assigned' = NewAssigned(assigned)
    /\ schedule' = NewSchedule(schedule)
    /\ i' = 1
    /\ pc' = "assigning"
    /\ result' = [fn |-> "run_typed", raised |-> FALSE]
    /\ UNCHANGED <<employees, events, prev, args>>

\* a build_event that raises inside the list comprehension ends the run
RunTypedRaises ==
    /\ pc = "idle" /\ result.fn = "none"
    /\ ~(TimeParses(args.start_time) /\ TimeParses(args.end_time))
    /\ pc' = "raised"
    /\ result' = [fn |-> "run_typed", raised |-> TRUE]
    /\ UNCHANGED <<employees, events, week, assigned, schedule, i, prev, args>>

\* the create-schedule button of the page, on the page's own list
RunPage ==
    /\ result.fn \in {"none", "add_event"}
    /\ pc = "idle"
    /\ CreateSchedule

NextForm ==
    \/ GuestsRefused
    \/ SubmitAccepted
    \/ SubmitRejected
    \/ BuildTypedReturns
    \/ BuildTypedRaises
    \/ RunTypedStarts
    \/ RunTypedRaises
    \/ RunPage
    \/ AssignStep
    \/ FinishRun

SpecForm == InitForm /\ [][NextForm]_vars

(***************************************************************************)
(* The page with one more event in the list and fewer kinds of request, so *)
(* that a run meets a busy candidate sorted ahead of a free one.           *)
(***************************************************************************)
MaxLongEvents == MaxEvents + 1

LongGuests == {50}

\* two windows that overlap on the same day: 06:00-10:00 and 08:00-12:00
LongTimeInputs ==
    { <<T("0","8","0","0"), T("1","0","0","0")>>,
      <<T("1","0","0","0"), T("1","2","0","0")>> }

AddEventLong(day, hall, guests, start_time, end_time) ==
    /\ pc \in {"idle", "done"}
    /\ Len(events) < MaxLongEvents
    /\ is_time_ok(start_time) /\ is_time_ok(end_time)
    /\ events' = Append(events, [day |-> day, hall |-> hall, guests |-> guests,
                                 start_time |-> Strip(start_time),
                                 end_time |-> Strip(end_time)])
    /\ DropRun
    /\ UNCHANGED <<employees, args, result>>

NextLong ==
    \/ \E day \in EventDays, hall \in Halls, guests \in LongGuests, t \in LongTimeInputs :
          AddEventLong(day, hall, guests, t[1], t[2])
    \/ ClearEvents
    \/ CreateSchedule
    \/ CreateScheduleEmpty
    \/ AssignStep
    \/ FinishRun

SpecLong == Init /\ [][NextLong]_vars

(***************************************************************************)
(* minutes_to_time followed by time_to_minutes, over integers, and         *)
(* overlaps over pairs of intervals.                                       *)
(***************************************************************************)
MaxMinute == 2880

InitClock ==
    /\ NoPage
    /\ \E m \in (0 - MaxMinute)..MaxMinute : args = [fn |-> "clock", m |-> m]
    /\ result = NoResult

ApplyMinutesToTime ==
    /\ args.fn = "clock"
    /\ result.fn = "none"
    /\ result' = [fn |-> "minutes_to_time", text |-> minutes_to_time(args.m)]
    /\ UNCHANGED <<employees, events, week, assigned, schedule, pc, i, prev, args>>

ApplyTimeToMinutes ==
    /\ args.fn = "clock"
    /\ result.fn = "minutes_to_time"
    /\ TimeParses(result.text)
    /\ result' = [fn |-> "time_to_minutes", text |-> result.text,
                  back |-> time_to_minutes(result.text)]
    /\ UNCHANGED <<employees, events, week, assigned, schedule, pc, i, prev, args>>

NextClock == ApplyMinutesToTime \/ ApplyTimeToMinutes

SpecClock == InitClock /\ [][NextClock]_vars

PointInputs == {0, 1, 59, 60, 61, 120}

InitOverlap ==
    /\ NoPage
    /\ \E a1, a2, b1, b2 \in PointInputs :
          args = [fn |-> "overlaps", a_start |-> a1, a_end |-> a2,
                  b_start |-> b1, b_end |-> b2]
    /\ result = NoResult

ApplyOverlaps ==
    /\ args.fn = "overlaps"
    /\ result.fn = "none"
    /\ result' = [fn |-> "overlaps",
                  ab |-> overlaps(args.a_start, args.a_end, args.b_start, args.b_end),
                  ba |-> overlaps(args.b_start, args.b_end, args.a_start, args.a_end)]
    /\ UNCHANGED <<employees, events, week, assigned, schedule, pc, i, prev, args>>

NextOverlap == ApplyOverlaps

SpecOverlap == InitOverlap /\ [][NextOverlap]_vars

(***************************************************************************)
(* can_assign over a name, a built event and a schedule of one name.       *)
(***************************************************************************)
\* (start text, end text) of the events whose windows are tried: 06:00-10:00,
\* 08:00-12:00, 21:30-25:00 (past midnight) and -01:00-03:00 (negative arrival)
FreeTimeInputs ==
    { <<T("0","8","0","0"), T("1","0","0","0")>>,
      <<T("1","0","0","0"), T("1","2","0","0")>>,
      <<T("2","3","3","0"), T("0","1","0","0")>>,
      <<T("0","1","0","0"), T("0","3","0","0")>> }

FreeEvents ==
    {build_event(d, "A", 150, t[1], t[2]) : d \in EventDays, t \in FreeTimeInputs}

\* what assign_event appends to schedule[name] for an event
IntervalOf(e) == <<e.day, e.arrival_min, e.end_min>>

MaxIntervals == 2

\* the lists schedule[name] can hold after some events
IntervalLists ==
    UNION {[1..n -> {IntervalOf(e) : e \in FreeEvents}] : n \in 1..MaxIntervals}

InitFree ==
    /\ NoPage
    /\ \E n \in {"a", "b"}, e \in FreeEvents, ivs \in IntervalLists \cup {<<>>} :
          args = [fn |-> "can_assign", name |-> n, event |-> e,
                  schedule |-> IF ivs = <<>> THEN EmptyDict
                               ELSE DictPut(EmptyDict, "a", ivs)]
    /\ result = NoResult

ApplyCanAssign ==
    /\ args.fn = "can_assign"
    /\ result.fn = "none"
    /\ result' = [fn |-> "can_assign",
                  free |-> can_assign(args.name, args.event, args.schedule)]
    /\ UNCHANGED <<employees, events, week, assigned, schedule, pc, i, prev, args>>

NextFree == ApplyCanAssign

SpecFree == InitFree /\ [][NextFree]_vars

(***************************************************************************)
(* Properties of the scheduling run.                                       *)
(***************************************************************************)
\* event k of the current run has been through assign_event
Processed(k) ==
    /\ k \in 1..Len(week)
    /\ \/ pc = "assigning" /\ k < i
       \/ pc = "done"

WindowsOverlap(a, b) == a.arrival_min < b.end_min /\ b.arrival_min < a.end_min

WaitersOn(day) ==
    {p \in 1..Len(employees) :
        employees[p].role = "waiter" /\ InSeq(day, employees[p].days)}

BartendersOn(day) ==
    {p \in 1..Len(employees) :
        employees[p].role = "bartender" /\ InSeq(day, employees[p].days)}

\* C1: at every point of a run, the busy intervals recorded for one name on one
\* day are pairwise non-overlapping (half-open test), whatever the roster.
C1_BusyIntervalsDisjoint ==
    \A n \in DOMAIN schedule :
        \A k1, k2 \in 1..Len(schedule[n]) :
            (k1 < k2 /\ schedule[n][k1][1] = schedule[n][k2][1])
                => ~(/\ schedule[n][k1][2] < schedule[n][k2][3]
                     /\ schedule[n][k2][2] < schedule[n][k1][3])

\* C2: for every processed event, assigned names plus missing count equals the
\* requirement for both roles, the names never exceed the requirement and the
\* missing counts are never negative.
C2_CountsAddUp ==
    \A k \in 1..Len(week) :
        Processed(k) =>
            /\ Len(week[k].waiter_names) + week[k].missing_waiters = week[k].waiters
            /\ Len(week[k].bartender_names) + week[k].missing_bartenders
                  = week[k].bartenders
            /\ Len(week[k].waiter_names) <= week[k].waiters
            /\ Len(week[k].bartender_names) <= week[k].bartenders
            /\ week[k].missing_waiters >= 0
            /\ week[k].missing_bartenders >= 0

\* a processed event with more bartenders on its day than it needs, so that the
\* selection stopped at the requirement, and with fewer waiters than it needs
C2_Witness ==
    \E k \in 1..Len(week) :
        /\ Processed(k)
        /\ Cardinality(BartendersOn(week[k].day)) > week[k].bartenders
        /\ Len(week[k].bartender_names) = week[k].bartenders
        /\ week[k].missing_bartenders = 0
        /\ Len(week[k].waiter_names) < week[k].waiters
        /\ week[k].missing_waiters > 0

\* events a < b of the run, both processed, on one day with overlapping
\* arrival-to-end windows, the roster holding exactly one waiter for that day
ScenarioC(a, b) ==
    /\ a \in 1..Len(week) /\ b \in 1..Len(week) /\ a < b
    /\ Processed(b)
    /\ week[a].day = week[b].day
    /\ WindowsOverlap(week[a], week[b])
    /\ Cardinality(WaitersOn(week[a].day)) = 1

SoleWaiterName(day) == employees[CHOOSE p \in WaitersOn(day) : TRUE].name

\* C3 as stated: in scenario C the first-processed event is fully staffed
\* (missing_waiters = 0) and the second reports missing_waiters >= 1.
C3_FirstFullyStaffed ==
    \A a, b \in 1..Len(week) :
        ScenarioC(a, b) =>
            /\ week[a].missing_waiters = 0
            /\ week[b].missing_waiters >= 1

\* C3 amended: in scenario C, when a is the first event of the run on that day,
\* a is assigned the sole waiter and still misses waiters - 1 >= 2 of them;
\* b gets no waiter and reports missing_waiters = waiters >= 3.
C3_SoleWaiterGoesToFirst ==
    \A a, b \in 1..Len(week) :
        (ScenarioC(a, b) /\ \A k \in 1..(a - 1) : week[k].day # week[a].day) =>
            /\ week[a].waiter_names = <<SoleWaiterName(week[a].day)>>
            /\ week[a].missing_waiters = week[a].waiters - 1
            /\ week[a].missing_waiters >= 2
            /\ week[b].waiter_names = <<>>
            /\ week[b].missing_waiters = week[b].waiters
            /\ week[b].missing_waiters >= 3

C3_Witness ==
    /\ pc = "done"
    /\ ScenarioC(1, 2)
    /\ week[1].arrival_min # week[2].arrival_min
    /\ Len(week[1].waiter_names) = 1

\* C6: at every point of a run the load counter of a name (0 when absent)
\* equals the number of busy intervals recorded for it (0 when absent).
C6_LoadEqualsIntervals ==
    \A n \in (DOMAIN assigned) \cup (DOMAIN schedule) \cup {Names[k] : k \in 1..Len(Names)} :
        DictGet(assigned, n, 0) = Len(DictGet(schedule, n, <<>>))

\* a name that was assigned twice, and another that never was
C6_Witness ==
    /\ \E n \in DOMAIN assigned : assigned[n] = 2 /\ Len(schedule[n]) = 2
    /\ \E k \in 1..Len(employees) : employees[k].name \notin DOMAIN assigned

LoadBefore(e) == DictGet(assigned, e.name, 0)

RankKey(e, difficulty) == IF difficulty >= 4 THEN e.rank ELSE 0 - e.rank

\* p comes before q in the claimed order: load, then rank by difficulty, then
\* position in the roster
Precedes(p, q, difficulty) ==
    LET ep == employees[p]
        eq == employees[q]
    IN  \/ LoadBefore(ep) < LoadBefore(eq)
        \/ /\ LoadBefore(ep) = LoadBefore(eq)
           /\ RankKey(ep, difficulty) < RankKey(eq, difficulty)
        \/ /\ LoadBefore(ep) = LoadBefore(eq)
           /\ RankKey(ep, difficulty) = RankKey(eq, difficulty)
           /\ p < q

\* no interval recorded for e on the event's day overlaps the event's window
FreeBefore(e, ev) ==
    LET ivs == DictGet(schedule, e.name, <<>>)
    IN  \A k \in 1..Len(ivs) :
            ~(/\ ivs[k][1] = ev.day
              /\ ivs[k][2] < ev.end_min
              /\ ev.arrival_min < ivs[k][3])

UniqueName(p) ==
    \A q \in 1..Len(employees) : q # p => employees[q].name # employees[p].name

\* q's name in the list implies p's name in it at an earlier position
PickedInOrder(p, q, names) ==
    InSeq(employees[q].name, names) =>
        \E k1, k2 \in 1..Len(names) :
            /\ k1 < k2
            /\ names[k1] = employees[p].name
            /\ names[k2] = employees[q].name

\* C4: in every assign_event step, of two free candidates of one role the one
\* that precedes by (load before the event, rank ascending for difficulty >= 4
\* and descending otherwise, roster position) is picked first: whenever the
\* later one is in the event's name list, the earlier one is too, ahead of it.
\* The event records names only, so the later candidate is one whose name no
\* other employee bears.
C4_CandidateOrder ==
    [][ (pc = "assigning" /\ pc' = "assigning") =>
          LET ev == week[i]
          IN  \A p, q \in 1..Len(employees) :
                ( /\ p # q
                  /\ employees[p].role = employees[q].role
                  /\ InSeq(ev.day, employees[p].days)
                  /\ InSeq(ev.day, employees[q].days)
                  /\ FreeBefore(employees[p], ev)
                  /\ FreeBefore(employees[q], ev)
                  /\ employees[p].name # employees[q].name
                  /\ UniqueName(q)
                  /\ Precedes(p, q, ev.difficulty) )
                =>
                ( /\ employees[p].role = "waiter"
                       => PickedInOrder(p, q, week'[i].waiter_names)
                  /\ employees[p].role = "bartender"
                       => PickedInOrder(p, q, week'[i].bartender_names) )
      ]_vars

\* scenario D in one run: a rank-5 waiter listed before a rank-1 waiter; the
\* difficulty >= 4 event takes rank 1 first, then with equal loads the
\* difficulty < 4 event takes rank 5 first
C4_Witness ==
    /\ pc = "done"
    /\ Len(week) = 2
    /\ Len(employees) = 2
    /\ employees[1].role = "waiter" /\ employees[2].role = "waiter"
    /\ employees[1].rank = 5 /\ employees[2].rank = 1
    /\ employees[1].name # employees[2].name
    /\ week[1].difficulty = 5
    /\ week[1].waiter_names = <<employees[2].name, employees[1].name>>
    /\ week[2].difficulty = 2
    /\ week[2].waiter_names = <<employees[1].name, employees[2].name>>

RequestOf(e) ==
    [day |-> e.day, hall |-> e.hall, guests |-> e.guests,
     start_time |-> e.start_time, end_time |-> e.end_time]

Unassigned(e) ==
    /\ e.waiter_names = <<>> /\ e.bartender_names = <<>>
    /\ e.missing_waiters = 0 /\ e.missing_bartenders = 0

\* C7: the week of a run is the input list, built in the same order; each step
\* of the run assigns exactly the event at position i and moves i forward by
\* one, every other event of the week is left as it was (so an assigned event
\* is never touched again), events from position i on are still unassigned,
\* and the run ends only after the last event.
C7_InOrderOnce ==
    [][ (pc' \in {"assigning", "done"}) =>
          /\ Len(week') = Len(events')
          /\ \A k \in 1..Len(week') : RequestOf(week'[k]) = events'[k]
          /\ \A k \in 1..Len(week') : k >= i' => Unassigned(week'[k])
          /\ pc = "assigning" =>
                /\ Len(week') = Len(week)
                /\ \A k \in 1..Len(week) :
                      (k # i \/ pc' = "done") => week'[k] = week[k]
                /\ pc' = "assigning" => (i <= Len(week) /\ i' = i + 1)
                /\ pc' = "done" => (i = Len(week) + 1 /\ i' = i)
          /\ pc # "assigning" => (pc' = "assigning" /\ i' = 1)
      ]_vars

\* a finished run over two different requests, both of which got staff
C7_Witness ==
    /\ pc = "done"
    /\ Len(week) = 2
    /\ events[1] # events[2]
    /\ Len(week[1].waiter_names) > 0
    /\ Len(week[2].waiter_names) > 0
    /\ week[1].waiter_names # week[2].waiter_names

(***************************************************************************)
(* Properties of the staffing rules and of build_event.                    *)
(***************************************************************************)
\* C8: for every guest count g >= 1, calc_staff gives max(3, ceil(g/20)) waiters
\* and max(1, ceil(g/60)) bartenders, so at least 3 and 1, and (8, 3) for 150.
C8_StaffFormula ==
    (result.fn = "calc_staff" /\ result.guests >= 1) =>
        LET g == result.guests
            w == result.waiters
            b == result.bartenders
        IN  /\ w >= 3 /\ 20 * w >= g /\ (w > 3 => 20 * (w - 1) < g)
            /\ b >= 1 /\ 60 * b >= g /\ (b > 1 => 60 * (b - 1) < g)
            /\ g = 150 => (w = 8 /\ b = 3)

C8_Witness ==
    /\ result.fn = "calc_staff"
    /\ result.guests = 150
    /\ result.waiters = 8
    /\ result.bartenders = 3

\* C9: difficulty_from_guests gives 2 up to 120 guests, 3 up to 250, 4 up to
\* 400 and 5 above, never decreases when the guest count grows, and has the
\* stated values at 120, 121, 250, 251, 400 and 401.
C9_TierPartition ==
    result.fn = "difficulty_from_guests" =>
        LET g == result.guests
            t == result.tier
        IN  /\ t \in {2, 3, 4, 5}
            /\ t = 2 <=> g <= 120
            /\ t = 3 <=> (120 < g /\ g <= 250)
            /\ t = 4 <=> (250 < g /\ g <= 400)
            /\ t = 5 <=> 400 < g
            /\ g <= result.other => t <= result.other_tier
            /\ g >= result.other => t >= result.other_tier
            /\ g = 120 => t = 2
            /\ g = 121 => t = 3
            /\ g = 250 => t = 3
            /\ g = 251 => t = 4
            /\ g = 400 => t = 4
            /\ g = 401 => t = 5

C9_Witness ==
    /\ result.fn = "difficulty_from_guests"
    /\ result.guests = 400 /\ result.tier = 4
    /\ result.other = 401 /\ result.other_tier = 5

\* C10: for valid HH:MM texts build_event sets start_min to the parsed start,
\* end_min to the parsed end, plus 1440 when the parsed end is not after the
\* start, and arrival_min to start_min - 120 unclamped; so arrival_min <
\* start_min < end_min and the event lasts between 1 and 1440 minutes.
C10_EventWindow ==
    result.fn = "build_event" =>
        LET ev == result.event
            s  == 60 * args.sh + args.sm
            e  == 60 * args.eh + args.em
        IN  /\ ev.start_min = s
            /\ e <= s => ev.end_min = e + 1440
            /\ e > s => ev.end_min = e
            /\ ev.arrival_min = s - 120
            /\ ev.arrival_min < ev.start_min
            /\ ev.start_min < ev.end_min
            /\ 1 <= ev.end_min - ev.start_min
            /\ ev.end_min - ev.start_min <= 1440

\* an end text equal to the start text, and an arrival before minute 0
C10_Witness ==
    /\ result.fn = "build_event"
    /\ args.start_time = args.end_time
    /\ result.event.end_min - result.event.start_min = 1440
    /\ result.event.arrival_min < 0


(***************************************************************************)
(* Properties of the typed request: scenario B, the time texts, the guest  *)
(* count and the roster rows.                                              *)
(***************************************************************************)
IsScenarioB(e) ==
    e.start_time = T("2","3","3","0") /\ e.end_time = T("0","1","0","0")

HasInterval(name, iv) ==
    /\ name \in DOMAIN schedule
    /\ InSeq(iv, schedule[name])

\* every name on event e holds the interval [from, e.end_min) on e's day
CommittedFrom(e, from) ==
    \A k \in 1..Len(e.waiter_names \o e.bartender_names) :
        HasInterval((e.waiter_names \o e.bartender_names)[k], <<e.day, from, e.end_min>>)

\* C11 as stated: an event from 23:30 to 01:00 has end minute 1500 and arrival
\* minute 1410, and the busy window committed for it runs from 1410 to 1500.
C11_ArrivalAtStart ==
    \A k \in 1..Len(week) :
        IsScenarioB(week[k]) =>
            /\ week[k].end_min = 1500
            /\ week[k].arrival_min = 1410
            /\ Processed(k) => CommittedFrom(week[k], 1410)

\* C11 amended: an event from 23:30 to 01:00 has start minute 1410, end minute
\* 1500 (the end is pushed past midnight) and arrival minute 1290, two hours
\* before the start; the busy window committed for it runs from 1290 to 1500.
C11_ArrivalTwoHoursBefore ==
    \A k \in 1..Len(week) :
        IsScenarioB(week[k]) =>
            /\ week[k].start_min = 1410
            /\ week[k].end_min = 1500
            /\ week[k].arrival_min = 1290
            /\ week[k].arrival_time = T("2","1","3","0")
            /\ Processed(k) => CommittedFrom(week[k], 1290)

C11_Witness ==
    /\ pc = "done"
    /\ \E k \in 1..Len(week) :
          /\ IsScenarioB(week[k])
          /\ Len(week[k].waiter_names) > 0
          /\ HasInterval(week[k].waiter_names[1], <<"sun", 1290, 1500>>)

\* the format the spec gives for a clock text: exactly 5 characters, a colon at
\* index 2, two digits on each side, hour 0..23, minute 0..59
WellFormedClock(t) ==
    /\ Len(t) = 5
    /\ t[3] = ":"
    /\ \A k \in {1, 2, 4, 5} : IsDigit(t[k])
    /\ 10 * DigitVal(t[1]) + DigitVal(t[2]) <= 23
    /\ 10 * DigitVal(t[4]) + DigitVal(t[5]) <= 59

IsNumber(s) == Len(Strip(s)) > 0 /\ \A k \in 1..Len(Strip(s)) : IsDigit(Strip(s)[k])

\* a number, a colon, a number: what split(":") and int() accept
TwoNumbers(t) ==
    \E k \in 1..Len(t) :
        /\ t[k] = ":"
        /\ IsNumber(SubSeq(t, 1, k - 1))
        /\ IsNumber(SubSeq(t, k + 1, Len(t)))

WeekOfList ==
    /\ Len(week) = Len(events)
    /\ \A k \in 1..Len(events) : RequestOf(week[k]) = events[k]

Smaller(a, b) == IF a <= b THEN a ELSE b

\* the first event of a run takes every available employee up to its needs
FirstEventStaffed ==
    Len(week) > 0 =>
        /\ Len(week[1].waiter_names) =
              Smaller(week[1].waiters, Cardinality(WaitersOn(week[1].day)))
        /\ Len(week[1].bartender_names) =
              Smaller(week[1].bartenders, Cardinality(BartendersOn(week[1].day)))

C14_BuildFailsOnBadGuests ==
    (result.fn = "build_typed" /\ args.guests <= 0) => result.raised

\* C14 amended: a guest count <= 0 is kept out upstream, by the form's number
\* input (1..3000): no request with guests <= 0 enters the event list, so the
\* page hands no such event to the assignment engine. build_event itself does
\* not look at the guest count: with guests <= 0 and readable time texts it
\* returns an event that asks for the minimum staff, 3 waiters and 1 bartender,
\* at difficulty 2.
C14_BadGuestsStoppedAtForm ==
    /\ \A k \in 1..Len(events) : events[k].guests >= 1
    /\ result.fn # "run_typed" => \A k \in 1..Len(week) : week[k].guests >= 1
    /\ args.guests <= 0 => result.fn # "add_event"
    /\ (result.fn = "build_typed" /\ args.guests <= 0) =>
          /\ result.raised <=> ~(TwoNumbers(args.start_time) /\ TwoNumbers(args.end_time))
          /\ ~result.raised =>
                /\ result.event.guests = args.guests
                /\ result.event.waiters = 3
                /\ result.event.bartenders = 1
                /\ result.event.difficulty = 2

C14_Witness ==
    /\ result.fn = "build_typed"
    /\ args.guests = 0
    /\ ~result.raised
    /\ result.event.waiters = 3
    /\ result.event.waiter_names = <<>>

IsBadRow(r) == r.name = "" \/ r.role \notin {"waiter", "bartender"}

\* a row of the handed-over list with this name, this role and a name
GoodRow(name, role) ==
    \E q \in 1..Len(args.raw) :
        /\ args.raw[q].name = name
        /\ args.raw[q].role = role
        /\ ~IsBadRow(args.raw[q])

AllNamesFrom(names, role) ==
    \A k \in 1..Len(names) : names[k] # "" /\ GoodRow(names[k], role)

NobodyOn(day) == \A p \in 1..Len(employees) : ~InSeq(day, employees[p].days)

\* C16: for an event whose day is in no employee's available days, the
\* assign_event step ends normally with empty waiter and bartender name lists
\* and missing counts equal to the required counts, and leaves the schedule and
\* the load counter as they were.
C16_UnknownDay ==
    [][ (pc = "assigning" /\ pc' = "assigning" /\ NobodyOn(week[i].day)) =>
          /\ week'[i].waiter_names = <<>>
          /\ week'[i].bartender_names = <<>>
          /\ week'[i].missing_waiters = week[i].waiters
          /\ week'[i].missing_bartenders = week[i].bartenders
          /\ assigned' = assigned
          /\ schedule' = schedule
      ]_vars

C16_Witness ==
    /\ pc = "done"
    /\ Len(week) = 2
    /\ Len(employees) = 2
    /\ NobodyOn(week[2].day)
    /\ Len(week[1].waiter_names) > 0
    /\ week[2].waiter_names = <<>> /\ week[2].bartender_names = <<>>
    /\ week[2].missing_waiters = week[2].waiters
    /\ week[2].missing_bartenders = week[2].bartenders
    /\ \A n \in DOMAIN schedule : Len(schedule[n]) = 1

\* the event without the four fields assign_event writes
Outcome(e) ==
    [e EXCEPT !.waiter_names = <<>>, !.bartender_names = <<>>,
              !.missing_waiters = 0, !.missing_bartenders = 0]

\* C17: an assign_event step leaves the roster as it was and changes, on the
\* event, only waiter_names, bartender_names, missing_waiters and
\* missing_bartenders; every other field of the event keeps its value.
C17_Frame ==
    [][ (pc = "assigning" /\ pc' = "assigning") =>
          /\ employees' = employees
          /\ DOMAIN week'[i] = DOMAIN week[i]
          /\ Outcome(week'[i]) = Outcome(week[i])
      ]_vars

C17_Witness ==
    /\ pc = "done"
    /\ Len(week) > 0
    /\ Len(employees) = 2
    /\ Len(week[1].waiter_names) = 2
    /\ week[1].missing_waiters = week[1].waiters - 2
    /\ week[1].waiters = 21
    /\ Outcome(week[1]) =
          build_event(events[1].day, events[1].hall, events[1].guests,
                      events[1].start_time, events[1].end_time)

(***************************************************************************)
(* Properties of the clock functions and of overlaps.                      *)
(***************************************************************************)
\* C18: for every integer m, negative and >= 1440 included, minutes_to_time(m)
\* is a zero-padded HH:MM text with hour 0..23 and minute 0..59, and
\* time_to_minutes of that text is m mod 1440: the one value in 0..1439 that
\* differs from m by a whole number of days.
C18_RoundTrip ==
    /\ result.fn \in {"minutes_to_time", "time_to_minutes"} =>
          /\ WellFormedClock(result.text)
          /\ is_time_ok(result.text)
    /\ result.fn = "time_to_minutes" =>
          /\ result.back \in 0..1439
          /\ \E q \in (0 - MaxMinute)..MaxMinute : args.m = 1440 * q + result.back

C18_Witness ==
    /\ result.fn = "time_to_minutes"
    /\ args.m = 0 - 121
    /\ result.text = T("2","1","5","9")
    /\ result.back = 1319

InBoth(t) ==
    /\ args.a_start <= t /\ t < args.a_end
    /\ args.b_start <= t /\ t < args.b_end

\* C19: overlaps is symmetric in its two intervals and is false when one
\* interval ends where the other starts: [0,60) and [60,120) do not overlap,
\* [0,61) and [60,120) do. For two non-empty intervals it says whether they
\* share a point.
C19_OverlapsSymmetric ==
    result.fn = "overlaps" =>
        /\ result.ab = result.ba
        /\ (args.a_end = args.b_start \/ args.b_end = args.a_start) => ~result.ab
        /\ (args.a_start < args.a_end /\ args.b_start < args.b_end) =>
              (result.ab <=> \E t \in PointInputs : InBoth(t))
        /\ (/\ args.a_start = 0 /\ args.a_end = 60
            /\ args.b_start = 60 /\ args.b_end = 120) => ~result.ab
        /\ (/\ args.a_start = 0 /\ args.a_end = 61
            /\ args.b_start = 60 /\ args.b_end = 120) => result.ab

C19_Witness ==
    /\ result.fn = "overlaps"
    /\ args.a_start = 60 /\ args.a_end = 120
    /\ args.b_start = 0 /\ args.b_end = 60
    /\ ~result.ab /\ ~result.ba

(***************************************************************************)
(* Properties of the selection of one assign_event step.                   *)
(***************************************************************************)
\* the employees of a role who are available on the event's day and free of
\* overlap in the schedule as it stands before the event
FreeCandidates(role, ev) ==
    {p \in 1..Len(employees) :
        /\ employees[p].role = role
        /\ InSeq(ev.day, employees[p].days)
        /\ FreeBefore(employees[p], ev)}

\* the place of p among the candidates c in the sorted order
PlaceAmong(p, c, difficulty) ==
    1 + Cardinality({q \in c : Precedes(q, p, difficulty)})

\* names lists, in sorted order, the first `required` free candidates
FirstFree(names, role, required, ev) ==
    LET c == FreeCandidates(role, ev)
    IN  /\ Len(names) = Smaller(required, Cardinality(c))
        /\ \A p \in c :
              PlaceAmong(p, c, ev.difficulty) <= Len(names) =>
                  names[PlaceAmong(p, c, ev.difficulty)] = employees[p].name

\* C20: in every assign_event step and for each role, the names written are
\* those of the first `required` candidates, in sorted order, that are free
\* against the schedule as it stood before the event: a candidate who is not
\* free is passed over and the ones after it are still considered; the waiter
\* list and the bartender list are each computed from the state before the
\* event; the lists are in selection order.
C20_FirstFreeInOrder ==
    [][ (pc = "assigning" /\ pc' = "assigning") =>
          /\ FirstFree(week'[i].waiter_names, "waiter", week[i].waiters, week[i])
          /\ FirstFree(week'[i].bartender_names, "bartender", week[i].bartenders, week[i])
      ]_vars

\* the third event overlaps the first: the bartender taken by the first sorts
\* ahead (equal loads, rank 5, difficulty 2) but is busy, the other is taken
C20_Witness ==
    /\ pc = "done"
    /\ Len(week) = 3
    /\ Len(employees) = 2
    /\ employees[1].role = "bartender" /\ employees[2].role = "bartender"
    /\ employees[1].name # employees[2].name
    /\ employees[1].rank = 5 /\ employees[2].rank = 1
    /\ week[1].bartender_names = <<employees[1].name>>
    /\ week[2].bartender_names = <<employees[2].name>>
    /\ week[3].bartender_names = <<employees[2].name>>
    /\ week[3].day = week[1].day
    /\ WindowsOverlap(week[1], week[3])
    /\ week[3].difficulty = 2

(***************************************************************************)
(* Properties of can_assign.                                               *)
(***************************************************************************)
\* the interval and the event's window [arrival_min, end_min) share a minute
SharesMinute(iv, ev) ==
    \E t \in {iv[2], ev.arrival_min} :
        /\ iv[2] <= t /\ t < iv[3]
        /\ ev.arrival_min <= t /\ t < ev.end_min

RecordedFor(name) ==
    IF name \in DOMAIN args.schedule THEN args.schedule[name] ELSE <<>>

\* C21: can_assign(name, event, schedule) is true iff no interval recorded for
\* the name on the event's day shares a minute with [arrival_min, end_min) of
\* the event; a name with no recorded interval is free, and an interval on
\* another day never blocks, also when it runs past minute 1440 or the event's
\* arrival_min is negative.
C21_FreeIffNoOverlapSameDay ==
    result.fn = "can_assign" =>
        /\ result.free <=>
              ~\E k \in 1..Len(RecordedFor(args.name)) :
                  /\ RecordedFor(args.name)[k][1] = args.event.day
                  /\ SharesMinute(RecordedFor(args.name)[k], args.event)
        /\ args.name \notin DOMAIN args.schedule => result.free
        /\ (\A k \in 1..Len(RecordedFor(args.name)) :
                RecordedFor(args.name)[k][1] # args.event.day) => result.free

\* a Sunday interval that runs to minute 1500 and a Monday event that arrives
\* at minute -60: different day codes, so free
C21_Witness ==
    /\ result.fn = "can_assign"
    /\ args.name = "a"
    /\ RecordedFor("a") = << <<"sun", 1290, 1500>> >>
    /\ args.event.day = "mon"
    /\ args.event.arrival_min = 0 - 60
    /\ result.free

(***************************************************************************)
(* Properties of the shortfall and of the names of one event.              *)
(***************************************************************************)
\* every free candidate of the role is in names, and names holds no one else
AllFreeTaken(names, role, ev) ==
    /\ \A p \in FreeCandidates(role, ev) : InSeq(employees[p].name, names)
    /\ Len(names) = Cardinality(FreeCandidates(role, ev))

\* C22: an assign_event step reports a shortfall only when staff is exhausted
\* at that point of the run: if missing_waiters > 0 afterwards, every waiter
\* of the roster who is available on the event's day and free for its window
\* against the schedule before the event is in waiter_names; the same holds
\* for bartenders.
C22_ShortfallOnlyWhenExhausted ==
    [][ (pc = "assigning" /\ pc' = "assigning") =>
          /\ week'[i].missing_waiters > 0 =>
                AllFreeTaken(week'[i].waiter_names, "waiter", week[i])
          /\ week'[i].missing_bartenders > 0 =>
                AllFreeTaken(week'[i].bartender_names, "bartender", week[i])
      ]_vars

\* the second event overlaps the first, which took the only bartender of the
\* day: he is available but busy, and the second event misses its bartender
C22_Witness ==
    /\ pc = "done"
    /\ Len(week) = 2
    /\ Len(employees) = 2
    /\ Cardinality(BartendersOn(week[2].day)) = 1
    /\ Cardinality(WaitersOn(week[2].day)) = 1
    /\ week[1].day = week[2].day
    /\ WindowsOverlap(week[1], week[2])
    /\ Len(week[1].bartender_names) = 1
    /\ week[2].bartender_names = <<>>
    /\ week[2].missing_bartenders = 1
    /\ week[2].missing_waiters = week[2].waiters

UniqueNames == \A p \in 1..Len(employees) : UniqueName(p)

\* every name of the list is that of an employee of the role who is available
\* on the day
AllOfRoleOn(names, role, day) ==
    \A k \in 1..Len(names) :
        \E p \in 1..Len(employees) :
            /\ employees[p].name = names[k]
            /\ employees[p].role = role
            /\ InSeq(day, employees[p].days)

NoRepeat(names) ==
    \A k1, k2 \in 1..Len(names) : names[k1] = names[k2] => k1 = k2

\* C23: for a roster with unique names, every name in an event's waiter_names
\* is that of a waiter whose days contain the event's day, every name in its
\* bartender_names is that of a bartender whose days contain the event's day,
\* and no name occurs twice in the two lists of one event.
C23_NamesMatchRoleAndDay ==
    UniqueNames =>
        \A k \in 1..Len(week) :
            /\ AllOfRoleOn(week[k].waiter_names, "waiter", week[k].day)
            /\ AllOfRoleOn(week[k].bartender_names, "bartender", week[k].day)
            /\ NoRepeat(week[k].waiter_names \o week[k].bartender_names)

C23_Witness ==
    /\ pc = "done"
    /\ UniqueNames
    /\ Len(employees) = 2
    /\ Len(week) = 2
    /\ Len(week[1].waiter_names) = 1 /\ Len(week[1].bartender_names) = 1
    /\ week[2].day # week[1].day
    /\ Len(week[2].waiter_names) + Len(week[2].bartender_names) = 1
====
